---------------------------- MODULE Spec2Model ----------------------------
(***************************************************************************)
(* A model of the dollarWize core (src/dollarWize.ts): the question bank  *)
(* and glossary, AssessmentEngine.assessUser, QuizEngine.generateQuiz /    *)
(* scoreQuiz and ProgressTracker.updateProgress / generateRecommendations. *)
(*                                                                         *)
(* JavaScript numbers are modelled as exact rationals <<n, d>> in lowest   *)
(* terms (d > 0).  Objects that the code shares by reference (the          *)
(* category_mastery record and the achievements array of a UserProgress)   *)
(* live in heaps indexed by a reference; a UserProgress object itself is a *)
(* record holding those references, because `{...progress}` copies the     *)
(* references and not the objects behind them.                             *)
(***************************************************************************)
EXTENDS Integers, Sequences, FiniteSets, TLC

VARIABLES
    session,      \* the QuizSession object the caller holds
    scoreCalls,   \* number of scoreQuiz calls made on `session`
    progress,     \* the UserProgress object passed to the last updateProgress
    updated,      \* the UserProgress object returned by the last updateProgress
    heapMastery,  \* reference -> category_mastery record
    heapAch,      \* reference -> achievements array
    now,          \* the clock read by `new Date()`, in milliseconds
    calls,        \* number of updateProgress calls made so far
    sumScore,     \* sum of session.score over those calls
    sumTotal,     \* sum of session.total_questions over those calls
    maxFolded,    \* largest category_performance value of the sessions of those calls
    lastOp,       \* the operation that produced the current state
    quizArgs,     \* arguments of the generateQuiz call
    quiz,         \* the array returned by generateQuiz
    answers,      \* the answers array given to assessUser
    scores,       \* assessUser's per-level accumulators at the end of its loop
    assessment,   \* the AssessmentResult returned by assessUser
    termId,       \* the argument of the last getRelatedTerms call
    relatedTerms, \* its outcome
    termCategory, \* the argument of the last getTermsByCategory call
    categoryTerms,\* its result
    masteryKeys,  \* the keys of the category_mastery given to generateRecommendations,
                  \* in the order Object.entries lists them
    recs          \* the array returned by ProgressTracker.generateRecommendations

vars == <<session, scoreCalls, progress, updated, heapMastery, heapAch, now,
          calls, sumScore, sumTotal, maxFolded, lastOp, quizArgs, quiz,
          answers, scores, assessment,
          termId, relatedTerms, termCategory, categoryTerms,
          masteryKeys, recs>>

sessionVars == <<session, scoreCalls>>
progressVars == <<progress, updated, heapMastery, heapAch, calls, sumScore, sumTotal,
                  maxFolded>>
quizVars == <<quizArgs, quiz>>
assessVars == <<answers, scores, assessment>>
glossaryVars == <<termId, relatedTerms, termCategory, categoryTerms>>
recVars == <<masteryKeys, recs>>

---------------------------------------------------------------------------
(* Bounds of the model.                                                    *)

MaxLen == 2          \* longest session whose life is followed
MaxCalls == 2        \* updateProgress calls made with that session
MaxTicks == 4        \* clock advances
TickMs == 43200000   \* one clock advance (12 hours)
MaxScoreCalls == 2   \* scoreQuiz calls counted on one session
ChainCalls == 6      \* updateProgress calls in a chain of quizzes
ChainLen == 1        \* longest session of a chain
ScoreLen == 3        \* longest session given to scoreQuiz alone
NumScoreQ == 4       \* those sessions draw from the first NumScoreQ bank questions
MaxAnswer == 2       \* and their answers range over -1 .. MaxAnswer
MaxTotal == 1        \* and their total_questions over 0 .. MaxTotal
MaxCount == 11       \* largest questionCount asked of generateQuiz
RandLevels == 2      \* Math.random() returns k / RandLevels for k in 0 .. RandLevels - 1
AssessLen == 6       \* longest answers array given to assessUser
AssessMaxAnswer == 3 \* and its entries range over -1 .. AssessMaxAnswer
MasteryLen == 3      \* longest session of a chain followed by recommendations
MasteryCalls == 3    \* updateProgress calls in such a chain
RecSpread == 1       \* mastery and accuracy given to generateRecommendations lie
                     \* within RecSpread of the thresholds they are compared with

---------------------------------------------------------------------------
(* Types and the static question bank.                                     *)

Levels == {"novice", "intermediate", "advanced"}

Categories == {"savings", "retirement", "investing", "credit", "planning",
               "economics", "taxation", "real_estate", "education",
               "insurance", "budgeting", "debt_management"}

Q(id, correct, level, category, weight) ==
    [id |-> id, correct |-> correct, level |-> level, category |-> category,
     difficulty_weight |-> weight]

questions == <<
    Q("nov_001", 1, "novice", "retirement", 2),
    Q("nov_002", 1, "novice", "savings", 2),
    Q("nov_003", 1, "novice", "savings", 2),
    Q("nov_004", 2, "novice", "credit", 3),
    Q("nov_005", 2, "novice", "retirement", 3),
    Q("nov_006", 2, "novice", "savings", 1),
    Q("nov_007", 1, "novice", "planning", 2),
    Q("nov_008", 1, "novice", "real_estate", 1),
    Q("nov_009", 1, "novice", "budgeting", 1),
    Q("nov_010", 1, "novice", "planning", 1),
    Q("int_001", 2, "intermediate", "education", 3),
    Q("int_002", 1, "intermediate", "investing", 3),
    Q("int_003", 1, "intermediate", "investing", 3),
    Q("int_004", 1, "intermediate", "taxation", 4),
    Q("int_005", 1, "intermediate", "investing", 3),
    Q("int_006", 2, "intermediate", "savings", 4),
    Q("adv_001", 1, "advanced", "investing", 5),
    Q("adv_002", 1, "advanced", "taxation", 5),
    Q("adv_003", 1, "advanced", "retirement", 4),
    Q("adv_004", 1, "advanced", "investing", 5),
    Q("adv_005", 0, "advanced", "retirement", 4),
    Q("adv_006", 1, "advanced", "taxation", 5) >>

---------------------------------------------------------------------------
(* Exact arithmetic on JavaScript numbers.                                 *)

RECURSIVE GCD(_, _)
GCD(a, b) == IF b = 0 THEN a ELSE GCD(b, a % b)

Abs(x) == IF x < 0 THEN -x ELSE x

Rat(n, d) ==
    LET g == GCD(Abs(n), Abs(d))
        s == IF d < 0 THEN -1 ELSE 1
    IN  <<(s * n) \div g, (s * d) \div g>>

Num(i) == <<i, 1>>
RatAdd(x, y) == Rat(x[1] * y[2] + y[1] * x[2], x[2] * y[2])
RatMul(x, y) == Rat(x[1] * y[1], x[2] * y[2])
RatDiv(x, y) == Rat(x[1] * y[2], x[2] * y[1])
RatLess(x, y) == x[1] * y[2] < y[1] * x[2]
RatLeq(x, y) == x[1] * y[2] <= y[1] * x[2]

NoDate == -1         \* a Date field that has not been set
NoRef == 0           \* an `undefined` object reference

---------------------------------------------------------------------------
(* JavaScript objects used as maps, and arrays.                            *)

EmptyMap == [c \in {} |-> 0]

Put(m, k, v) == [c \in (DOMAIN m) \cup {k} |-> IF c = k THEN v ELSE m[c]]

Includes(arr, x) == \E i \in 1..Len(arr) : arr[i] = x

Max(S) == CHOOSE x \in S : \A y \in S : y <= x

NoDuplicates(arr) == \A i, j \in 1..Len(arr) : i # j => arr[i] # arr[j]

Elements(arr) == {arr[i] : i \in 1..Len(arr)}

SeqsUpTo(S, n) == UNION {[1..k -> S] : k \in 0..n}

NoDupSeqs(S, n) ==
    {s \in SeqsUpTo(S, n) : \A i, j \in 1..Len(s) : i # j => s[i] # s[j]}

---------------------------------------------------------------------------
(* QuizEngine.scoreQuiz.  A session holds its questions as indices into    *)
(* the bank; user_answers[index] of a missing entry is `undefined`, which  *)
(* is never === q.correct.                                                 *)

NewSessionObject(qs, ans, tq) ==
    [questions |-> qs, user_answers |-> ans, score |-> 0, total_questions |-> tq,
     category_performance |-> EmptyMap, completed_at |-> NoDate]

\* the loop writing the category key for every question, adding 1 only on a hit.
RECURSIVE scoreLoopZeroKeys(_, _, _)
scoreLoopZeroKeys(s, index, acc) ==
    IF index > Len(s.questions) THEN acc
    ELSE LET q == questions[s.questions[index]]
             hit == index <= Len(s.user_answers) /\ s.user_answers[index] = q.correct
             cp == acc.categoryPerformance
             old == IF q.category \in DOMAIN cp THEN cp[q.category] ELSE 0
         IN  scoreLoopZeroKeys(s, index + 1,
                 [correctAnswers |-> acc.correctAnswers + (IF hit THEN 1 ELSE 0),
                  categoryPerformance |->
                      Put(cp, q.category, old + (IF hit THEN 1 ELSE 0))])

RECURSIVE scoreLoop(_, _, _)
scoreLoop(s, index, acc) ==
    IF index > Len(s.questions) THEN acc
    ELSE LET q == questions[s.questions[index]]
             hit == index <= Len(s.user_answers) /\ s.user_answers[index] = q.correct
             cp == acc.categoryPerformance
             old == IF q.category \in DOMAIN cp /\ cp[q.category] # 0
                    THEN cp[q.category] ELSE 0
         IN  scoreLoop(s, index + 1,
                 IF hit
                 THEN [correctAnswers |-> acc.correctAnswers + 1,
                       categoryPerformance |-> Put(cp, q.category, old + 1)]
                 ELSE acc)

\* scoreQuiz accumulating onto the session's previous score and counts.
scoreQuizAccumulating(s, t) ==
    LET r == scoreLoop(s, 1, [correctAnswers |-> s.score,
                              categoryPerformance |-> s.category_performance])
    IN  [s EXCEPT !.score = r.correctAnswers,
                  !.category_performance = r.categoryPerformance,
                  !.completed_at = t]

\* scoreQuiz stamping completed_at only while it is unset.
scoreQuizStampOnce(s, t) ==
    LET r == scoreLoop(s, 1, [correctAnswers |-> 0, categoryPerformance |-> EmptyMap])
    IN  [s EXCEPT !.score = r.correctAnswers,
                  !.category_performance = r.categoryPerformance,
                  !.completed_at = IF s.completed_at = NoDate THEN t ELSE s.completed_at]

scoreQuiz(s, t) ==
    LET r == scoreLoop(s, 1, [correctAnswers |-> 0, categoryPerformance |-> EmptyMap])
    IN  [s EXCEPT !.score = r.correctAnswers,
                  !.category_performance = r.categoryPerformance,
                  !.completed_at = t]

---------------------------------------------------------------------------
(* ProgressTracker.                                                        *)

MsPerDay == 1000 * 60 * 60 * 24

\* The streak kept only for activity less than one whole day old.
calculateLearningStreakSameDay(lastActivity, today) ==
    IF lastActivity = NoDate THEN 1
    ELSE LET daysDiff == (today - lastActivity) \div MsPerDay
         IN  IF daysDiff < 1 THEN 1 ELSE 0

calculateLearningStreak(lastActivity, today) ==
    IF lastActivity = NoDate THEN 1
    ELSE LET daysDiff == (today - lastActivity) \div MsPerDay
         IN  IF daysDiff <= 1 THEN 1 ELSE 0

\* checkAchievements pushing without the `includes` tests.
checkAchievementsNoDedupe(p, s, hA) ==
    LET ref == IF p.achievements # NoRef THEN p.achievements
               ELSE Cardinality(DOMAIN hA) + 1
        a0 == IF p.achievements # NoRef THEN hA[ref] ELSE <<>>
        a1 == IF s.score = s.total_questions THEN Append(a0, "Perfect Score") ELSE a0
        a2 == IF p.total_quizzes_completed >= 5 THEN Append(a1, "Quiz Whiz") ELSE a1
    IN  [ref |-> ref, heap |-> Put(hA, ref, a2)]

\* checkAchievements awarding "Quiz Whiz" with > 5 in place of >= 5.
checkAchievementsAfterFifth(p, s, hA) ==
    LET ref == IF p.achievements # NoRef THEN p.achievements
               ELSE Cardinality(DOMAIN hA) + 1
        a0 == IF p.achievements # NoRef THEN hA[ref] ELSE <<>>
        a1 == IF s.score = s.total_questions /\ ~Includes(a0, "Perfect Score")
              THEN Append(a0, "Perfect Score") ELSE a0
        a2 == IF p.total_quizzes_completed > 5 /\ ~Includes(a1, "Quiz Whiz")
              THEN Append(a1, "Quiz Whiz") ELSE a1
    IN  [ref |-> ref, heap |-> Put(hA, ref, a2)]

\* checkAchievements refusing "Perfect Score" to a session of zero questions.
checkAchievementsNonEmpty(p, s, hA) ==
    LET ref == IF p.achievements # NoRef THEN p.achievements
               ELSE Cardinality(DOMAIN hA) + 1
        a0 == IF p.achievements # NoRef THEN hA[ref] ELSE <<>>
        a1 == IF s.total_questions > 0 /\ s.score = s.total_questions
                 /\ ~Includes(a0, "Perfect Score")
              THEN Append(a0, "Perfect Score") ELSE a0
        a2 == IF p.total_quizzes_completed >= 5 /\ ~Includes(a1, "Quiz Whiz")
              THEN Append(a1, "Quiz Whiz") ELSE a1
    IN  [ref |-> ref, heap |-> Put(hA, ref, a2)]

checkAchievements(p, s, hA) ==
    LET ref == IF p.achievements # NoRef THEN p.achievements
               ELSE Cardinality(DOMAIN hA) + 1
        a0 == IF p.achievements # NoRef THEN hA[ref] ELSE <<>>
        a1 == IF s.score = s.total_questions /\ ~Includes(a0, "Perfect Score")
              THEN Append(a0, "Perfect Score") ELSE a0
        a2 == IF p.total_quizzes_completed >= 5 /\ ~Includes(a1, "Quiz Whiz")
              THEN Append(a1, "Quiz Whiz") ELSE a1
    IN  [ref |-> ref, heap |-> Put(hA, ref, a2)]

\* The mastery rebuilt from the session alone: untouched categories are lost.
updateMasterySessionOnly(m, cp) ==
    [c \in DOMAIN cp |->
        LET currentScore == IF c \in DOMAIN m /\ m[c] # Num(0) THEN m[c] ELSE Num(0)
        IN  RatDiv(RatAdd(currentScore, Num(cp[c])), Num(2))]

\* The mastery as a running sum: the new score is added and not averaged in.
updateMasteryRunningSum(m, cp) ==
    [c \in (DOMAIN m) \cup (DOMAIN cp) |->
        IF c \in DOMAIN cp
        THEN LET currentScore == IF c \in DOMAIN m /\ m[c] # Num(0) THEN m[c] ELSE Num(0)
             IN  RatAdd(currentScore, Num(cp[c]))
        ELSE m[c]]

updateMastery(m, cp) ==
    [c \in (DOMAIN m) \cup (DOMAIN cp) |->
        IF c \in DOMAIN cp
        THEN LET currentScore == IF c \in DOMAIN m /\ m[c] # Num(0) THEN m[c] ELSE Num(0)
             IN  RatDiv(RatAdd(currentScore, Num(cp[c])), Num(2))
        ELSE m[c]]

updateProgress(p, s, hM, hA, t) ==
    LET totalCorrect ==
            RatAdd(RatDiv(RatMul(Num(p.total_questions_answered), p.overall_accuracy),
                          Num(100)),
                   Num(s.score))
        totalAnswered == p.total_questions_answered + s.total_questions
        accuracy == IF totalAnswered > 0
                    THEN RatMul(RatDiv(totalCorrect, Num(totalAnswered)), Num(100))
                    ELSE Num(0)
        updatedProgress ==
            [p EXCEPT !.total_quizzes_completed = p.total_quizzes_completed + 1,
                      !.total_questions_answered = totalAnswered,
                      !.overall_accuracy = accuracy,
                      !.last_activity = t]
        hM1 == [hM EXCEPT ![updatedProgress.category_mastery] =
                              updateMastery(@, s.category_performance)]
        ach == checkAchievements(updatedProgress, s, hA)
    IN  [result |-> [updatedProgress EXCEPT
                        !.achievements = ach.ref,
                        !.learning_streak = calculateLearningStreak(p.last_activity, t)],
         heapMastery |-> hM1,
         heapAch |-> ach.heap]

FreshProgress(achRef) ==
    [user_id |-> "guest", current_level |-> "novice",
     total_quizzes_completed |-> 0, total_questions_answered |-> 0,
     overall_accuracy |-> Num(0), category_mastery |-> 1,
     learning_streak |-> 0, achievements |-> achRef, last_activity |-> NoDate]

\* The value of a UserProgress object: its fields with the references followed.
Deref(p, hM, hA) ==
    [p EXCEPT !.category_mastery = hM[@],
              !.achievements = IF @ = NoRef THEN [defined |-> FALSE, items |-> <<>>]
                               ELSE [defined |-> TRUE, items |-> hA[@]]]

Achievements(p, hA) == IF p.achievements = NoRef THEN <<>> ELSE hA[p.achievements]

---------------------------------------------------------------------------
(* The caller: it creates sessions, scores them and folds them into a      *)
(* chain of progress snapshots, each call receiving the snapshot the       *)
(* previous call returned.                                                 *)

NoQuizArgs ==
    [level |-> "novice", hasCount |-> FALSE, count |-> 0, hasFocus |-> FALSE, focus |-> {},
     rand |-> <<>>]

\* No assessment has been made.
NoAssessUser ==
    /\ answers = <<>>
    /\ scores = [l \in Levels |-> 0]
    /\ assessment = [user_id |-> "", primary_level |-> "novice",
                     category_scores |-> [c \in Categories |-> 0],
                     strengths |-> <<>>, improvement_areas |-> <<>>,
                     recommended_topics |-> <<>>, assessment_date |-> NoDate]

\* No glossary query has been made.
NoGlossaryCall ==
    /\ termId = ""
    /\ relatedTerms = [threw |-> FALSE, value |-> <<>>]
    /\ termCategory = ""
    /\ categoryTerms = <<>>

\* No recommendations have been asked for.
NoRecommendations ==
    /\ masteryKeys = <<>>
    /\ recs = <<>>

InitProgress ==
    /\ \E a \in {NoRef, 1} :
        /\ progress = FreshProgress(a)
        /\ updated = FreshProgress(a)
        /\ heapAch = IF a = NoRef THEN EmptyMap ELSE (1 :> <<>>)
    /\ heapMastery = (1 :> EmptyMap)
    /\ calls = 0
    /\ sumScore = 0
    /\ sumTotal = 0
    /\ maxFolded = 0

\* The sessions a quiz of the first n bank questions can leave behind: each
\* question answered with its correct option or left unanswered (-1), and
\* total_questions set by the caller to anything up to n.
QuizSessions(maxLen) ==
    UNION { { NewSessionObject([i \in 1..n |-> i],
                               [i \in 1..n |-> IF i \in right THEN questions[i].correct
                                               ELSE -1],
                               tq) :
                right \in SUBSET (1..n), tq \in 0..n } :
            n \in 0..maxLen }

\* Sessions of any shape: any questions, user_answers of any length.
Sessions(numQ, maxLen, maxAns) ==
    {NewSessionObject(qs, ans, tq) :
        qs \in NoDupSeqs(1..numQ, maxLen), ans \in SeqsUpTo(-1..maxAns, maxLen),
        tq \in 0..MaxTotal}

ScoreQuiz ==
    /\ scoreCalls < MaxScoreCalls
    /\ session' = scoreQuiz(session, now)
    /\ scoreCalls' = scoreCalls + 1
    /\ lastOp' = "scoreQuiz"
    /\ UNCHANGED <<progressVars, now, quizVars, assessVars, glossaryVars, recVars>>

\* The caller passes a scored session and the snapshot the previous call returned.
UpdateProgress(limit) ==
    /\ scoreCalls >= 1
    /\ calls < limit
    /\ LET r == updateProgress(updated, session, heapMastery, heapAch, now)
       IN  /\ progress' = updated
           /\ updated' = r.result
           /\ heapMastery' = r.heapMastery
           /\ heapAch' = r.heapAch
    /\ calls' = calls + 1
    /\ sumScore' = sumScore + session.score
    /\ sumTotal' = sumTotal + session.total_questions
    /\ maxFolded' = Max({maxFolded} \cup
                        {session.category_performance[c] :
                            c \in DOMAIN session.category_performance})
    /\ lastOp' = "updateProgress"
    /\ UNCHANGED <<sessionVars, now, quizVars, assessVars, glossaryVars, recVars>>

Tick ==
    /\ now < MaxTicks * TickMs
    /\ now' = now + TickMs
    /\ lastOp' = "tick"
    /\ UNCHANGED <<sessionVars, progressVars, quizVars, assessVars, glossaryVars, recVars>>

(* The life of one session: created, scored (and scored again) and folded  *)
(* into the progress while the clock advances.                             *)

Init ==
    /\ session \in QuizSessions(MaxLen)
    /\ scoreCalls = 0
    /\ InitProgress
    /\ now = 0
    /\ lastOp = "init"
    /\ quizArgs = NoQuizArgs
    /\ quiz = <<>>
    /\ NoAssessUser
    /\ NoGlossaryCall
    /\ NoRecommendations

UpdateProgressOnce == UpdateProgress(MaxCalls)

Next == ScoreQuiz \/ Tick \/ UpdateProgressOnce

Spec == Init /\ [][Next]_vars

(* A chain of quizzes: each session is created, scored once and folded     *)
(* into the progress the previous call returned; the clock stands still.   *)

InitChain ==
    /\ session = NewSessionObject(<<>>, <<>>, 0)
    /\ scoreCalls = 0
    /\ InitProgress
    /\ now = 0
    /\ lastOp = "init"
    /\ quizArgs = NoQuizArgs
    /\ quiz = <<>>
    /\ NoAssessUser
    /\ NoGlossaryCall
    /\ NoRecommendations

NewSession ==
    /\ lastOp \in {"init", "updateProgress"}
    /\ session' \in QuizSessions(ChainLen)
    /\ scoreCalls' = 0
    /\ lastOp' = "newSession"
    /\ UNCHANGED <<progressVars, now, quizVars, assessVars, glossaryVars, recVars>>

ScoreQuizFirst ==
    /\ lastOp = "newSession"
    /\ ScoreQuiz

UpdateProgressChain ==
    /\ lastOp = "scoreQuiz"
    /\ UpdateProgress(ChainCalls)

NextChain == NewSession \/ ScoreQuizFirst \/ UpdateProgressChain

SpecChain == InitChain /\ [][NextChain]_vars

(* Scoring as a function of the session: a session of any shape is drawn   *)
(* at the start and scored, then scored again.                             *)

InitScore ==
    /\ session \in Sessions(NumScoreQ, ScoreLen, MaxAnswer)
    /\ scoreCalls = 0
    /\ InitProgress
    /\ now = 0
    /\ lastOp = "init"
    /\ quizArgs = NoQuizArgs
    /\ quiz = <<>>
    /\ NoAssessUser
    /\ NoGlossaryCall
    /\ NoRecommendations

NextScore == ScoreQuiz

SpecScore == InitScore /\ [][NextScore]_vars

---------------------------------------------------------------------------
(* QuizEngine.generateQuiz.  Arrays of questions are arrays of indices     *)
(* into the bank.  Math.random() is a choice: rand[i] is the draw made in  *)
(* iteration i of the shuffle.                                             *)

\* FinancialQuestionBank.getQuestions is called but its body is not in the
\* source; it is the specification's questionsForLevel: the questions
\* tagged with exactly `level`, in bank order.
getQuestions(level) ==
    SelectSeq([i \in 1..Len(questions) |-> i], LAMBDA i : questions[i].level = level)

\* A swap without the destructuring: the second write reads the overwritten slot.
SwapOverwriting(array, a, b) == [array EXCEPT ![a] = array[b]]

Swap(array, a, b) == [array EXCEPT ![a] = array[b], ![b] = array[a]]

\* i and j are the code's 0-based indices.
RECURSIVE shuffleLoop(_, _, _)
shuffleLoop(array, i, rand) ==
    IF i <= 0 THEN array
    ELSE LET j == (rand[i] * (i + 1)) \div RandLevels
         IN  shuffleLoop(Swap(array, i + 1, j + 1), i - 1, rand)

shuffleArray(array, rand) == shuffleLoop(array, Len(array) - 1, rand)

Slice(array, from, to) ==
    LET e == IF to > Len(array) THEN Len(array) ELSE to
    IN  IF e <= from THEN <<>> ELSE SubSeq(array, from + 1, e)

Filtered(userLevel, hasFocus, focusCategories) ==
    IF hasFocus /\ Cardinality(focusCategories) > 0
    THEN SelectSeq(getQuestions(userLevel),
                   LAMBDA i : questions[i].category \in focusCategories)
    ELSE getQuestions(userLevel)

\* generateQuiz returning nothing when the pool is too small.
generateQuizEmptyWhenShort(userLevel, questionCount, hasFocus, focusCategories, rand) ==
    LET availableQuestions == Filtered(userLevel, hasFocus, focusCategories)
    IN  IF Len(availableQuestions) < questionCount
        THEN <<>>
        ELSE Slice(shuffleArray(availableQuestions, rand), 0, questionCount)

generateQuiz(userLevel, questionCount, hasFocus, focusCategories, rand) ==
    LET availableQuestions == Filtered(userLevel, hasFocus, focusCategories)
    IN  IF Len(availableQuestions) < questionCount
        THEN shuffleArray(availableQuestions, rand)
        ELSE Slice(shuffleArray(availableQuestions, rand), 0, questionCount)

DefaultQuestionCount == 10

\* questionCount is optional: absent, it takes its default.
CountOptions ==
    {[hasCount |-> FALSE, count |-> DefaultQuestionCount]} \cup
    {[hasCount |-> TRUE, count |-> n] : n \in 0..MaxCount}

FocusCategories == {"savings", "retirement", "insurance"}

\* focusCategories is optional: absent, or an array (here a set) of categories.
FocusOptions ==
    {[hasFocus |-> FALSE, focus |-> {}]} \cup
    {[hasFocus |-> TRUE, focus |-> g] : g \in SUBSET FocusCategories}

InitQuiz ==
    /\ session = NewSessionObject(<<>>, <<>>, 0)
    /\ scoreCalls = 0
    /\ InitProgress
    /\ now = 0
    /\ lastOp = "init"
    /\ \E l \in Levels, c \in CountOptions, o \in FocusOptions :
          \E r \in [1..(Len(Filtered(l, o.hasFocus, o.focus)) - 1) -> 0..(RandLevels - 1)] :
             quizArgs = [level |-> l, hasCount |-> c.hasCount, count |-> c.count,
                         hasFocus |-> o.hasFocus, focus |-> o.focus, rand |-> r]
    /\ quiz = <<>>
    /\ NoAssessUser
    /\ NoGlossaryCall
    /\ NoRecommendations

GenerateQuiz ==
    /\ lastOp = "init"
    /\ quiz' = generateQuiz(quizArgs.level, quizArgs.count, quizArgs.hasFocus,
                            quizArgs.focus, quizArgs.rand)
    /\ lastOp' = "generateQuiz"
    /\ UNCHANGED <<sessionVars, progressVars, now, quizArgs, assessVars, glossaryVars, recVars>>

NextQuiz == GenerateQuiz

SpecQuiz == InitQuiz /\ [][NextQuiz]_vars

---------------------------------------------------------------------------
(* AssessmentEngine.assessUser.  answers[index] is undefined past the end  *)
(* of the array, and undefined equals no question's correct option.        *)

assessmentQuestions ==
    << Q("assess_001", 1, "novice", "retirement", 3),
       Q("assess_002", 2, "novice", "credit", 3),
       Q("assess_003", 0, "intermediate", "investing", 4),
       Q("assess_004", 0, "intermediate", "education", 4),
       Q("assess_005", 2, "advanced", "investing", 4) >>

\* Weights under which one advanced answer outweighs both intermediate ones.
questionWeightsSteep == [novice |-> 1, intermediate |-> 2, advanced |-> 5]

questionWeights == [novice |-> 1, intermediate |-> 2, advanced |-> 3]

\* The keys of categoryScores in the order Object.entries lists them.
categoryScoresKeys ==
    << "savings", "retirement", "investing", "credit", "planning", "economics",
       "taxation", "real_estate", "education", "insurance", "budgeting",
       "debt_management" >>

\* The loop reading a missing answer as option 0.
RECURSIVE assessLoopMissingAsZero(_, _, _)
assessLoopMissingAsZero(ans, index, acc) ==
    IF index > Len(assessmentQuestions) THEN acc
    ELSE LET q == assessmentQuestions[index]
             a == IF index <= Len(ans) THEN ans[index] ELSE 0
         IN  assessLoopMissingAsZero(ans, index + 1,
                IF a = q.correct
                THEN [scores |-> [acc.scores EXCEPT ![q.level] = @ + questionWeights[q.level]],
                      categoryScores |-> [acc.categoryScores EXCEPT
                                             ![q.category] = @ + q.difficulty_weight]]
                ELSE acc)

\* The forEach over assessmentQuestions; index is 1-based here.
RECURSIVE assessLoop(_, _, _)
assessLoop(ans, index, acc) ==
    IF index > Len(assessmentQuestions) THEN acc
    ELSE LET q == assessmentQuestions[index]
         IN  assessLoop(ans, index + 1,
                IF index <= Len(ans) /\ ans[index] = q.correct
                THEN [scores |-> [acc.scores EXCEPT ![q.level] = @ + questionWeights[q.level]],
                      categoryScores |-> [acc.categoryScores EXCEPT
                                             ![q.category] = @ + q.difficulty_weight]]
                ELSE acc)

\* The level choice with non-strict comparisons.
primaryLevelTiesUp(sc) ==
    LET first == IF sc.intermediate >= sc.novice THEN "intermediate" ELSE "novice"
        maxScore == IF sc.intermediate >= sc.novice THEN sc.intermediate ELSE sc.novice
    IN  IF sc.advanced >= maxScore THEN "advanced" ELSE first

primaryLevel(sc) ==
    LET first == IF sc.intermediate > sc.novice THEN "intermediate" ELSE "novice"
        maxScore == IF sc.intermediate > sc.novice THEN sc.intermediate ELSE sc.novice
    IN  IF sc.advanced > maxScore THEN "advanced" ELSE first

\* The improvement filter leaving out the categories nothing was scored in.
improvementAreasNonZero(categoryScores) ==
    SelectSeq(categoryScoresKeys, LAMBDA c : categoryScores[c] > 0 /\ categoryScores[c] < 5)

improvementAreas(categoryScores) ==
    SelectSeq(categoryScoresKeys, LAMBDA c : categoryScores[c] < 5)

\* The strengths filter with a lower threshold than the improvement filter.
strengthsFromFour(categoryScores) ==
    SelectSeq(categoryScoresKeys, LAMBDA c : categoryScores[c] >= 4)

strengths(categoryScores) ==
    SelectSeq(categoryScoresKeys, LAMBDA c : categoryScores[c] >= 5)

\* AssessmentEngine.generateRecommendations: a message is modelled by its
\* kind and by the areas it joins into its text.
\* The recommendations without the summary of the improvement areas.
recommendedTopicsLevelOnly(level, areas) ==
    << [kind |-> level, areas |-> <<>>] >>

recommendedTopics(level, areas) ==
    (IF Len(areas) > 0 THEN << [kind |-> "focus", areas |-> areas] >> ELSE <<>>) \o
    << [kind |-> level, areas |-> <<>>] >>

assessUser(ans, today) ==
    LET acc == assessLoop(ans, 1,
                   [scores |-> [l \in Levels |-> 0],
                    categoryScores |-> [c \in Categories |-> 0]])
        level == primaryLevel(acc.scores)
        areas == improvementAreas(acc.categoryScores)
    IN  [scores |-> acc.scores,
         result |-> [user_id |-> "guest",
                     primary_level |-> level,
                     category_scores |-> acc.categoryScores,
                     strengths |-> strengths(acc.categoryScores),
                     improvement_areas |-> areas,
                     recommended_topics |-> recommendedTopics(level, areas),
                     assessment_date |-> today]]

\* The caller passes an answers array of any length holding any integers.
InitAssess ==
    /\ session = NewSessionObject(<<>>, <<>>, 0)
    /\ scoreCalls = 0
    /\ InitProgress
    /\ now = 0
    /\ lastOp = "init"
    /\ quizArgs = NoQuizArgs
    /\ quiz = <<>>
    /\ answers \in SeqsUpTo(-1..AssessMaxAnswer, AssessLen)
    /\ scores = [l \in Levels |-> 0]
    /\ assessment = [user_id |-> "", primary_level |-> "novice",
                     category_scores |-> [c \in Categories |-> 0],
                     strengths |-> <<>>, improvement_areas |-> <<>>,
                     recommended_topics |-> <<>>, assessment_date |-> NoDate]
    /\ NoGlossaryCall
    /\ NoRecommendations

AssessUser ==
    /\ lastOp = "init"
    /\ LET r == assessUser(answers, now)
       IN  /\ scores' = r.scores
           /\ assessment' = r.result
    /\ lastOp' = "assessUser"
    /\ UNCHANGED <<sessionVars, progressVars, now, quizVars, answers, glossaryVars, recVars>>

NextAssess == AssessUser

SpecAssess == InitAssess /\ [][NextAssess]_vars

---------------------------------------------------------------------------
(* The glossary.  Arrays of terms are arrays of indices into glossaryTerms.*)
(* Six terms are written without a related_terms property: reading it      *)
(* gives `undefined`, and calling .includes on that throws a TypeError.    *)

Term(id, level, category, related) ==
    [id |-> id, level |-> level, category |-> category,
     has_related_terms |-> TRUE, related_terms |-> related]

TermWithoutRelated(id, level, category) ==
    [id |-> id, level |-> level, category |-> category,
     has_related_terms |-> FALSE, related_terms |-> <<>>]

glossaryTerms ==
    << Term("ira_roth", "novice", "retirement", <<"traditional_ira", "401k">>),
       Term("fico_score", "novice", "credit", <<"credit_report", "interest_rate">>),
       Term("401k", "novice", "retirement", <<"ira", "roth_ira", "vesting">>),
       Term("cd", "novice", "savings", <<"savings_account", "fixed_income">>),
       TermWithoutRelated("inflation", "novice", "economics"),
       TermWithoutRelated("mortgage", "novice", "real_estate"),
       Term("529_plan", "intermediate", "education", <<"ira", "401k">>),
       Term("hsa", "intermediate", "savings", <<"fsa", "ira">>),
       TermWithoutRelated("etf", "intermediate", "investing"),
       TermWithoutRelated("mutual_fund", "intermediate", "investing"),
       Term("compound_interest", "novice", "savings",
            <<"simple_interest", "principal", "time_value_money">>),
       Term("tax_loss_harvesting", "advanced", "taxation",
            <<"capital_gains", "wash_sale_rule">>),
       TermWithoutRelated("sharpe_ratio", "advanced", "investing"),
       TermWithoutRelated("reit", "advanced", "real_estate") >>

\* The constructor: this.terms = this.glossaryTerms.
terms == glossaryTerms

getTermsByCategory(category) ==
    SelectSeq([i \in 1..Len(terms) |-> i], LAMBDA i : terms[i].category = category)

\* A lookup that throws when the id is not found.
getRelatedTermsStrict(id) ==
    LET found == SelectSeq([i \in 1..Len(terms) |-> i], LAMBDA i : terms[i].id = id)
    IN  IF found = <<>> THEN [threw |-> TRUE, value |-> <<>>]
        ELSE LET term == terms[found[1]]
             IN  IF ~term.has_related_terms /\ Len(terms) > 0
                 THEN [threw |-> TRUE, value |-> <<>>]
                 ELSE [threw |-> FALSE,
                       value |-> SelectSeq([i \in 1..Len(terms) |-> i],
                                           LAMBDA i : Includes(term.related_terms, terms[i].id))]

\* The outcome of a call: the array returned, or a TypeError thrown by the
\* filter callback at its first element.
getRelatedTerms(id) ==
    LET found == SelectSeq([i \in 1..Len(terms) |-> i], LAMBDA i : terms[i].id = id)
    IN  IF found = <<>> THEN [threw |-> FALSE, value |-> <<>>]
        ELSE LET term == terms[found[1]]
             IN  IF ~term.has_related_terms /\ Len(terms) > 0
                 THEN [threw |-> TRUE, value |-> <<>>]
                 ELSE [threw |-> FALSE,
                       value |-> SelectSeq([i \in 1..Len(terms) |-> i],
                                           LAMBDA i : Includes(term.related_terms, terms[i].id))]

\* The ids a caller asks about: every stored id, every id a stored term
\* lists and one id that appears nowhere.
TermIds ==
    {terms[i].id : i \in 1..Len(terms)} \cup
    UNION {Elements(terms[i].related_terms) : i \in 1..Len(terms)} \cup
    {"no_such_term"}

InitGlossary ==
    /\ session = NewSessionObject(<<>>, <<>>, 0)
    /\ scoreCalls = 0
    /\ InitProgress
    /\ now = 0
    /\ lastOp = "init"
    /\ quizArgs = NoQuizArgs
    /\ quiz = <<>>
    /\ NoAssessUser
    /\ NoGlossaryCall
    /\ NoRecommendations

GetRelatedTerms ==
    /\ \E id \in TermIds :
          /\ termId' = id
          /\ relatedTerms' = getRelatedTerms(id)
    /\ lastOp' = "getRelatedTerms"
    /\ UNCHANGED <<sessionVars, progressVars, now, quizVars, assessVars,
                   termCategory, categoryTerms, recVars>>

GetTermsByCategory ==
    /\ \E c \in Categories :
          /\ termCategory' = c
          /\ categoryTerms' = getTermsByCategory(c)
    /\ lastOp' = "getTermsByCategory"
    /\ UNCHANGED <<sessionVars, progressVars, now, quizVars, assessVars,
                   termId, relatedTerms, recVars>>

NextGlossary == GetRelatedTerms \/ GetTermsByCategory

SpecGlossary == InitGlossary /\ [][NextGlossary]_vars

---------------------------------------------------------------------------
(* ProgressTracker.generateRecommendations.  A message is modelled by its  *)
(* text and, for the templated one, the category spliced into it.          *)

Message(text, category) == [text |-> text, category |-> category]

MasteryThreshold == 60
LowAccuracy == 70
HighAccuracy == 85

\* The category test with <= in place of <.
generateRecommendationsInclusive(p, hM, keys) ==
    LET mastery == hM[p.category_mastery]
        weak == SelectSeq(keys, LAMBDA c : RatLeq(mastery[c], Num(MasteryThreshold)))
        focus == [i \in 1..Len(weak) |->
                     Message("Focus on improving ${category} knowledge", weak[i])]
    IN  IF RatLess(p.overall_accuracy, Num(LowAccuracy))
        THEN focus \o << Message("Review fundamental concepts in the glossary", ""),
                         Message("Try starting with easier quiz levels", "") >>
        ELSE IF RatLess(Num(HighAccuracy), p.overall_accuracy)
        THEN focus \o << Message("Challenge yourself with advanced level quizzes", ""),
                         Message("Explore complex financial strategies", "") >>
        ELSE focus

\* keys is Object.keys(progress.category_mastery).
generateRecommendations(p, hM, keys) ==
    LET mastery == hM[p.category_mastery]
        weak == SelectSeq(keys, LAMBDA c : RatLess(mastery[c], Num(MasteryThreshold)))
        focus == [i \in 1..Len(weak) |->
                     Message("Focus on improving ${category} knowledge", weak[i])]
    IN  IF RatLess(p.overall_accuracy, Num(LowAccuracy))
        THEN focus \o << Message("Review fundamental concepts in the glossary", ""),
                         Message("Try starting with easier quiz levels", "") >>
        ELSE IF RatLess(Num(HighAccuracy), p.overall_accuracy)
        THEN focus \o << Message("Challenge yourself with advanced level quizzes", ""),
                         Message("Explore complex financial strategies", "") >>
        ELSE focus

\* The categories the given category_mastery may have keys for.
RecCategories == {"savings", "retirement", "investing"}

\* The caller passes a progress of its own making: any of the categories as
\* keys, in any order, with a mastery near the threshold, and an accuracy
\* near one of the two thresholds.
InitRecs ==
    /\ session = NewSessionObject(<<>>, <<>>, 0)
    /\ scoreCalls = 0
    /\ \E keys \in NoDupSeqs(RecCategories, Cardinality(RecCategories)) :
          \E m \in [Elements(keys) ->
                      {Num(v) : v \in (MasteryThreshold - RecSpread)
                                        ..(MasteryThreshold + RecSpread)}] :
             /\ masteryKeys = keys
             /\ heapMastery = (1 :> m)
    /\ \E a \in ((LowAccuracy - RecSpread)..(LowAccuracy + RecSpread)) \cup
                 ((HighAccuracy - RecSpread)..(HighAccuracy + RecSpread)) :
          /\ progress = [FreshProgress(1) EXCEPT !.overall_accuracy = Num(a)]
          /\ updated = progress
    /\ heapAch = (1 :> <<>>)
    /\ calls = 0
    /\ sumScore = 0
    /\ sumTotal = 0
    /\ maxFolded = 0
    /\ now = 0
    /\ lastOp = "init"
    /\ quizArgs = NoQuizArgs
    /\ quiz = <<>>
    /\ NoAssessUser
    /\ NoGlossaryCall
    /\ recs = <<>>

GenerateRecommendations ==
    /\ lastOp = "init"
    /\ recs' = generateRecommendations(progress, heapMastery, masteryKeys)
    /\ lastOp' = "generateRecommendations"
    /\ UNCHANGED <<sessionVars, progressVars, now, quizVars, assessVars, glossaryVars,
                   masteryKeys>>

NextRecs == GenerateRecommendations

SpecRecs == InitRecs /\ [][NextRecs]_vars

(* A chain of quizzes whose progress is asked for recommendations.  The    *)
(* order in which Object.entries lists the mastery keys is the order of    *)
(* their insertion, which the mastery record does not keep: any order of   *)
(* the keys is taken.                                                      *)

\* The sessions of a caller that sets total_questions to the number of
\* questions of the quiz.
FullSessions(maxLen) ==
    {s \in QuizSessions(maxLen) : s.total_questions = Len(s.questions)}

NewSessionMastery ==
    /\ lastOp \in {"init", "updateProgress"}
    /\ session' \in FullSessions(MasteryLen)
    /\ scoreCalls' = 0
    /\ lastOp' = "newSession"
    /\ UNCHANGED <<progressVars, now, quizVars, assessVars, glossaryVars, recVars>>

UpdateProgressMastery ==
    /\ lastOp = "scoreQuiz"
    /\ UpdateProgress(MasteryCalls)

GenerateRecommendationsAfterUpdate ==
    /\ lastOp = "updateProgress"
    /\ \E keys \in NoDupSeqs(DOMAIN heapMastery[updated.category_mastery],
                              Cardinality(DOMAIN heapMastery[updated.category_mastery])) :
          /\ Len(keys) = Cardinality(DOMAIN heapMastery[updated.category_mastery])
          /\ masteryKeys' = keys
          /\ recs' = generateRecommendations(updated, heapMastery, keys)
    /\ lastOp' = "generateRecommendations"
    /\ UNCHANGED <<sessionVars, progressVars, now, quizVars, assessVars, glossaryVars>>

NextMastery ==
    NewSessionMastery \/ ScoreQuizFirst \/ UpdateProgressMastery
        \/ GenerateRecommendationsAfterUpdate

SpecMastery == InitChain /\ [][NextMastery]_vars

---------------------------------------------------------------------------
(* Properties.                                                             *)

\* The positions of a session answered with the question's correct option.
Matches(s) ==
    {i \in 1..Len(s.questions) :
        /\ i <= Len(s.user_answers)
        /\ s.user_answers[i] # -1
        /\ s.user_answers[i] = questions[s.questions[i]].correct}

MatchesIn(s, c) == {i \in Matches(s) : questions[s.questions[i]].category = c}

RECURSIVE SumOver(_, _)
SumOver(f, keys) ==
    IF keys = {} THEN 0
    ELSE LET k == CHOOSE x \in keys : TRUE IN f[k] + SumOver(f, keys \ {k})

\* C1: updateProgress leaves the progress object it was given as it was: the
\* value of that object, with its category_mastery record and achievements
\* array followed, is the same after the call as before it.
C1_OriginalNotMutated ==
    [][lastOp' = "updateProgress" =>
          Deref(progress', heapMastery', heapAch') = Deref(progress', heapMastery, heapAch)]_vars

\* C2: along a chain of updateProgress calls the achievements only grow: every
\* achievement held before a call is held after it, and none is held twice.
C2_AchievementsOnlyGrow ==
    [][lastOp' = "updateProgress" =>
          /\ Elements(Achievements(updated, heapAch))
                 \subseteq Elements(Achievements(updated', heapAch'))
          /\ NoDuplicates(Achievements(updated', heapAch'))]_vars

C2_Witness ==
    /\ lastOp = "updateProgress"
    /\ calls = 6
    /\ Len(Achievements(updated, heapAch)) = 2

\* C3: from a fresh progress, the result of a call holds "Quiz Whiz" exactly
\* from the 5th call on, whatever the sessions scored.
C3_QuizWhizFromFifthCall ==
    Includes(Achievements(updated, heapAch), "Quiz Whiz") <=> calls >= 5

C3_Witness ==
    /\ calls = 5
    /\ Achievements(updated, heapAch) = <<"Quiz Whiz">>
    /\ session.score # session.total_questions

\* C4: a call on a progress without "Perfect Score" adds it exactly when the
\* session's score equals its total_questions, a session of zero questions
\* included.
C4_PerfectScoreIffAllCorrect ==
    [][(lastOp' = "updateProgress"
          /\ ~Includes(Achievements(updated, heapAch), "Perfect Score")) =>
          (Includes(Achievements(updated', heapAch'), "Perfect Score")
              <=> session.score = session.total_questions)]_vars

C4_Witness ==
    /\ lastOp = "updateProgress"
    /\ calls = 1
    /\ session.total_questions = 0
    /\ session.score = 0
    /\ Achievements(updated, heapAch) = <<"Perfect Score">>

\* C5: after any chain of calls from a fresh progress, overall_accuracy is
\* 100 * (sum of scores) / (sum of total_questions), or 0 when that sum is 0,
\* total_questions_answered is the sum of total_questions and
\* total_quizzes_completed is the number of calls.
C5_AccuracyIsRatioOfSums ==
    /\ updated.overall_accuracy =
           (IF sumTotal > 0 THEN Rat(100 * sumScore, sumTotal) ELSE Num(0))
    /\ updated.total_questions_answered = sumTotal
    /\ updated.total_quizzes_completed = calls

\* C6: in every progress reached from a fresh one by updateProgress calls on
\* sessions scored by scoreQuiz, overall_accuracy lies between 0 and 100.
C6_AccuracyInRange ==
    /\ RatLeq(Num(0), updated.overall_accuracy)
    /\ RatLeq(updated.overall_accuracy, Num(100))

\* C7: scoreQuiz sets score to the number of positions answered with the
\* correct option, and scoring the same session again gives the same score
\* and the same category_performance.
C7_ScoreCountsMatchesAndRepeats ==
    [][lastOp' = "scoreQuiz" =>
          /\ session'.score = Cardinality(Matches(session))
          /\ scoreCalls >= 1 =>
                /\ session'.score = session.score
                /\ session'.category_performance = session.category_performance]_vars

C7_Witness ==
    /\ scoreCalls = 2
    /\ session.score = 2
    /\ Len(session.questions) = 3

\* C8: after scoreQuiz, category_performance holds exactly the categories with
\* a correct answer, each with its number of correct answers, the values sum
\* to score, and no position that is unanswered (-1) or missing counts.
C8_CategoryPerformanceCounts ==
    scoreCalls >= 1 =>
        LET cp == session.category_performance
        IN  /\ DOMAIN cp = {c \in Categories : MatchesIn(session, c) # {}}
            /\ \A c \in DOMAIN cp : cp[c] = Cardinality(MatchesIn(session, c))
            /\ SumOver(cp, DOMAIN cp) = session.score

C8_Witness ==
    /\ scoreCalls >= 1
    /\ Len(session.questions) = 3
    /\ Len(session.user_answers) = 2
    /\ session.user_answers[1] = -1
    /\ session.score = 1
    /\ \E c \in Categories :
          /\ Cardinality({i \in 1..3 : questions[session.questions[i]].category = c}) = 2
          /\ c \in DOMAIN session.category_performance

\* C9 as stated: once a session has been scored, nothing done to it changes
\* its score, category_performance or completed_at again.
C9_PopulatedOnce ==
    [][(scoreCalls >= 1 /\ scoreCalls' # 0) =>
          /\ session'.score = session.score
          /\ session'.category_performance = session.category_performance
          /\ session'.completed_at = session.completed_at]_vars

\* C9 as amended: once a session has been scored, updateProgress writes none
\* of the three fields; a repeated scoreQuiz leaves score and
\* category_performance at the same values and sets completed_at again, to
\* the time of that call.
C9_RescoreRestampsOnly ==
    [][(scoreCalls >= 1 /\ scoreCalls' # 0) =>
          /\ session'.score = session.score
          /\ session'.category_performance = session.category_performance
          /\ lastOp' = "scoreQuiz" => session'.completed_at = now
          /\ lastOp' # "scoreQuiz" => session' = session]_vars

C9_Witness ==
    /\ scoreCalls = 2
    /\ lastOp = "updateProgress"
    /\ session.completed_at = TickMs
    /\ session.score = 1

\* C10: generateQuiz returns min(count, size of the level- and focus-filtered
\* pool) questions.
C10_QuizLength ==
    lastOp = "generateQuiz" =>
        LET pool == {i \in 1..Len(questions) :
                        /\ questions[i].level = quizArgs.level
                        /\ (quizArgs.hasFocus /\ quizArgs.focus # {})
                               => questions[i].category \in quizArgs.focus}
            size == Cardinality(pool)
        IN  Len(quiz) = (IF quizArgs.count <= size THEN quizArgs.count ELSE size)

C10_Witness ==
    /\ lastOp = "generateQuiz"
    /\ quizArgs.hasCount
    /\ quizArgs.hasFocus
    /\ Len(quiz) = 3
    /\ quizArgs.count = 5

\* C11: every question generateQuiz returns is a bank question of exactly the
\* requested level, no question is returned twice, with a non-empty focus
\* every returned category is in the focus, and with an absent or empty
\* focus no category is filtered out: a quiz that is not cut short holds
\* the whole level (the whole focused part of it when a focus is given).
C11_QuizContent ==
    lastOp = "generateQuiz" =>
        LET focused == quizArgs.hasFocus /\ quizArgs.focus # {}
            pool == {i \in 1..Len(questions) :
                        /\ questions[i].level = quizArgs.level
                        /\ focused => questions[i].category \in quizArgs.focus}
        IN  /\ Elements(quiz) \subseteq pool
            /\ NoDuplicates(quiz)
            /\ \A i, j \in 1..Len(quiz) : i # j => questions[quiz[i]].id # questions[quiz[j]].id
            /\ quizArgs.count >= Cardinality(pool) => Elements(quiz) = pool

\* A focused quiz of several questions that the shuffle reordered.
C11_Witness ==
    /\ lastOp = "generateQuiz"
    /\ quizArgs.hasFocus /\ quizArgs.focus = {"savings", "retirement"}
    /\ Len(quiz) >= 2
    /\ quiz # SubSeq(Filtered(quizArgs.level, TRUE, quizArgs.focus), 1, Len(quiz))

\* The assessment questions answered with their correct option.
AssessCorrect ==
    {i \in 1..Len(assessmentQuestions) :
        i <= Len(answers) /\ answers[i] = assessmentQuestions[i].correct}

\* C12: assessUser puts each of the twelve categories in exactly one of
\* strengths and improvement_areas: in strengths when its score is 5 or
\* more, in improvement_areas when it is less, a score of 0 included.
C12_StrengthsAndImprovementPartition ==
    lastOp = "assessUser" =>
        /\ NoDuplicates(assessment.strengths)
        /\ NoDuplicates(assessment.improvement_areas)
        /\ \A c \in Categories :
              /\ c \in Elements(assessment.strengths) <=> assessment.category_scores[c] >= 5
              /\ c \in Elements(assessment.improvement_areas) <=>
                     assessment.category_scores[c] < 5
              /\ c \in Elements(assessment.strengths) <=>
                     c \notin Elements(assessment.improvement_areas)

\* A strength beside improvement areas of zero and of non-zero score.
C12_Witness ==
    /\ lastOp = "assessUser"
    /\ "investing" \in Elements(assessment.strengths)
    /\ \E c, d \in Elements(assessment.improvement_areas) :
          assessment.category_scores[c] = 0 /\ assessment.category_scores[d] > 0

\* C13 as stated: strengths and improvement_areas hold only categories with
\* a non-zero score; a category scored 0 is in neither.
C13_ZeroScoreInNeither ==
    lastOp = "assessUser" =>
        \A c \in Categories :
            assessment.category_scores[c] = 0 =>
                /\ c \notin Elements(assessment.strengths)
                /\ c \notin Elements(assessment.improvement_areas)

\* C13 as amended: strengths and improvement_areas together hold all twelve
\* categories and share none; a category scored 0 is in improvement_areas.
C13_ZeroScoreInImprovement ==
    lastOp = "assessUser" =>
        /\ Elements(assessment.strengths) \cup Elements(assessment.improvement_areas)
              = Categories
        /\ Elements(assessment.strengths) \cap Elements(assessment.improvement_areas) = {}
        /\ \A c \in Categories :
              assessment.category_scores[c] = 0 =>
                  c \in Elements(assessment.improvement_areas)

\* Some categories scored and the others left at 0.
C13_Witness ==
    /\ lastOp = "assessUser"
    /\ assessment.category_scores["retirement"] = 3
    /\ assessment.category_scores["savings"] = 0
    /\ "savings" \in Elements(assessment.improvement_areas)

\* C14: the accumulators hold 1 per correct novice answer, 2 per correct
\* intermediate answer and 3 per correct advanced answer; primary_level is
\* advanced when the advanced accumulator is strictly above both others,
\* else intermediate when that accumulator is strictly above the novice
\* one, else novice; all five answers correct give 2, 4 and 3 and
\* intermediate.
C14_PrimaryLevelStrictCascade ==
    lastOp = "assessUser" =>
        LET acc(l) == questionWeights[l] *
                        Cardinality({i \in AssessCorrect : assessmentQuestions[i].level = l})
        IN  /\ \A l \in Levels : scores[l] = acc(l)
            /\ assessment.primary_level =
                  IF acc("advanced") > acc("novice") /\ acc("advanced") > acc("intermediate")
                  THEN "advanced"
                  ELSE IF acc("intermediate") > acc("novice") THEN "intermediate"
                  ELSE "novice"
            /\ answers = <<1, 2, 0, 0, 2>> =>
                  /\ scores = [novice |-> 2, intermediate |-> 4, advanced |-> 3]
                  /\ assessment.primary_level = "intermediate"

\* A tie between the novice and the intermediate accumulator, kept novice.
C14_Witness ==
    /\ lastOp = "assessUser"
    /\ scores.novice = 2 /\ scores.intermediate = 2 /\ scores.advanced = 0
    /\ assessment.primary_level = "novice"

\* C15: assessUser returns a result for an answers array of any length
\* holding any integers: user_id is "guest", category_scores has all twelve
\* categories, and a position past the end of the array or holding another
\* value than the correct option adds nothing to any accumulator.
C15_AssessUserTotal ==
    lastOp = "assessUser" =>
        /\ assessment.user_id = "guest"
        /\ DOMAIN assessment.category_scores = Categories
        /\ \A c \in Categories :
              assessment.category_scores[c] =
                  SumOver([i \in AssessCorrect |-> assessmentQuestions[i].difficulty_weight],
                          {i \in AssessCorrect : assessmentQuestions[i].category = c})
        /\ scores.novice + scores.intermediate + scores.advanced =
              SumOver([i \in AssessCorrect |-> questionWeights[assessmentQuestions[i].level]],
                      AssessCorrect)

\* A short array whose missing positions belong to questions with correct
\* option 0, and an over-long array with an out-of-range entry.
C15_Witness ==
    /\ lastOp = "assessUser"
    /\ \/ Len(answers) = 2 /\ answers[1] = 1
       \/ Len(answers) > Len(assessmentQuestions) /\ answers[1] = -1 /\ answers[3] = 0

\* The stored terms with the given id.
Stored(id) == {i \in 1..Len(terms) : terms[i].id = id}

C17_RelatedTermsTotal ==
    lastOp = "getRelatedTerms" =>
        \A t \in Stored(termId) :
            /\ ~relatedTerms.threw
            /\ (~terms[t].has_related_terms \/ terms[t].related_terms = <<>>) =>
                  relatedTerms.value = <<>>

C19_MasteryHalvesTowardsCount ==
    [][lastOp' = "updateProgress" =>
          LET prior == heapMastery[updated.category_mastery]
              post == heapMastery'[updated'.category_mastery]
              cp == session.category_performance
          IN  /\ DOMAIN post = (DOMAIN prior) \cup (DOMAIN cp)
              /\ \A c \in DOMAIN cp :
                    RatMul(post[c], Num(2)) =
                        RatAdd(IF c \in DOMAIN prior THEN prior[c] ELSE Num(0), Num(cp[c]))
              /\ \A c \in (DOMAIN prior) \ (DOMAIN cp) : post[c] = prior[c]]_vars

\* Two sessions with a correct retirement answer took its mastery to 1/2
\* and then 3/4; a third session without one left it there.
C19_Witness ==
    /\ lastOp = "updateProgress"
    /\ calls = 3
    /\ DOMAIN session.category_performance = {}
    /\ DOMAIN heapMastery[updated.category_mastery] = {"retirement"}
    /\ heapMastery[updated.category_mastery]["retirement"] = Rat(3, 4)

\* C20: generateRecommendations returns one focus message for each category
\* of category_mastery whose mastery is below 60 and none for any other,
\* followed by the two remediation messages when overall_accuracy is below
\* 70, by the two challenge messages when it is above 85 and by nothing
\* when it is from 70 to 85; it changes nothing in the progress it is given.
C20_Recommendations ==
    [][lastOp' = "generateRecommendations" =>
          LET mastery == heapMastery[progress.category_mastery]
              weak == {c \in DOMAIN mastery : RatLess(mastery[c], Num(60))}
              n == Cardinality(weak)
              acc == progress.overall_accuracy
              rest == IF Len(recs') <= n THEN <<>> ELSE SubSeq(recs', n + 1, Len(recs'))
          IN  /\ Len(recs') >= n
              /\ \A i \in 1..n :
                    recs'[i].text = "Focus on improving ${category} knowledge"
              /\ {recs'[i].category : i \in 1..n} = weak
              /\ rest = IF RatLess(acc, Num(70))
                        THEN << Message("Review fundamental concepts in the glossary", ""),
                                Message("Try starting with easier quiz levels", "") >>
                        ELSE IF RatLess(Num(85), acc)
                        THEN << Message("Challenge yourself with advanced level quizzes", ""),
                                Message("Explore complex financial strategies", "") >>
                        ELSE <<>>
              /\ Deref(progress', heapMastery', heapAch') = Deref(progress, heapMastery, heapAch)
              /\ masteryKeys' = masteryKeys]_vars

\* One category below 60, one at 60 and an accuracy above 85: one focus
\* message and the two challenge messages.
C20_Witness ==
    /\ lastOp = "generateRecommendations"
    /\ \E c, d \in DOMAIN heapMastery[progress.category_mastery] :
          /\ heapMastery[progress.category_mastery][c] = Num(59)
          /\ heapMastery[progress.category_mastery][d] = Num(60)
    /\ progress.overall_accuracy = Num(86)
    /\ Len(recs) = 3

\* C21: assessUser returns advanced exactly when the advanced question (the
\* fifth) is answered correctly and at most one of the two intermediate
\* questions (the third and fourth) is; it returns intermediate whenever
\* both intermediate questions are answered correctly; so five correct
\* answers never give advanced.
C21_AdvancedNeedsAnIntermediateMiss ==
    lastOp = "assessUser" =>
        LET right(i) == i <= Len(answers) /\ answers[i] = assessmentQuestions[i].correct
        IN  /\ assessment.primary_level = "advanced" <=>
                  (right(5) /\ ~(right(3) /\ right(4)))
            /\ (right(3) /\ right(4)) => assessment.primary_level = "intermediate"
            /\ (\A i \in 1..5 : right(i)) => assessment.primary_level # "advanced"

\* The advanced question and one intermediate question answered correctly.
C21_Witness ==
    /\ lastOp = "assessUser"
    /\ Len(answers) >= 5
    /\ answers[3] = 0 /\ answers[4] # 0 /\ answers[5] = 2
    /\ assessment.primary_level = "advanced"

\* C22: improvement_areas is never empty: only investing can be a strength,
\* and only with both investing questions answered correctly; so
\* recommended_topics has exactly two entries, the summary naming all the
\* improvement areas and then the message of primary_level.
C22_TwoRecommendedTopics ==
    lastOp = "assessUser" =>
        /\ Len(assessment.improvement_areas) > 0
        /\ Elements(assessment.strengths) \subseteq {"investing"}
        /\ assessment.strengths # <<>> <=>
              /\ Len(answers) >= 5
              /\ answers[3] = assessmentQuestions[3].correct
              /\ answers[5] = assessmentQuestions[5].correct
        /\ Len(assessment.recommended_topics) = 2
        /\ assessment.recommended_topics[1] =
              [kind |-> "focus", areas |-> assessment.improvement_areas]
        /\ assessment.recommended_topics[2] =
              [kind |-> assessment.primary_level, areas |-> <<>>]

\* Investing is a strength and the other eleven categories are summarised.
C22_Witness ==
    /\ lastOp = "assessUser"
    /\ assessment.strengths = << "investing" >>
    /\ Len(assessment.recommended_topics) = 2
    /\ Len(assessment.recommended_topics[1].areas) = 11

\* C23: along a chain of updateProgress calls from an empty category_mastery,
\* with sessions scored by scoreQuiz, every mastery value is above 0 and
\* strictly below the largest per-category correct count of the sessions
\* folded so far; no level of the bank has more than 10 questions, so every
\* value stays below 60 and generateRecommendations returns a focus message
\* for every category of category_mastery, whatever the accuracy.
C23_MasteryStaysLow ==
    LET mastery == heapMastery[updated.category_mastery]
    IN  /\ \A c \in DOMAIN mastery :
              /\ RatLess(Num(0), mastery[c])
              /\ RatLess(mastery[c], Num(maxFolded))
              /\ RatLess(mastery[c], Num(60))
        /\ \A l \in Levels :
              Cardinality({i \in 1..Len(questions) : questions[i].level = l}) <= 10
        /\ lastOp = "generateRecommendations" =>
              \A c \in DOMAIN mastery :
                  \E i \in 1..Len(recs) :
                      recs[i] = Message("Focus on improving ${category} knowledge", c)

\* Three quizzes answered without a mistake: accuracy 100, and still a
\* focus message for each of the two categories before the challenge ones.
C23_Witness ==
    /\ lastOp = "generateRecommendations"
    /\ calls = 3
    /\ updated.overall_accuracy = Num(100)
    /\ maxFolded = 2
    /\ DOMAIN heapMastery[updated.category_mastery] = {"retirement", "savings"}
    /\ Len(recs) = 4

==========================================================================
